---- MODULE Spec2Model ----
(***************************************************************************)
(* Model of the realtime translator.                                       *)
(*                                                                         *)
(* The translation request queue: DeeplClient                              *)
(* (src/assets/js/api/deeplClient.js).  One action is one JavaScript task  *)
(* turn: a translate() call, the arrival of the response of a fetch, or    *)
(* the firing of a delay() timer.                                          *)
(*                                                                         *)
(* The transcription session: AssemblyAISpeechRecognitionModule            *)
(* (src/assets/js/modules/assemblyAISpeechRecognition_v2.js).  One action  *)
(* is one task turn with the microtasks it runs: a call of start(),        *)
(* stop() or reset(), the answer of the token function, an event of a      *)
(* socket, the firing of a timer, the answer to the capture request, or    *)
(* an audio buffer handed to onaudioprocess.                               *)
(*                                                                         *)
(* The page: App (src/assets/js/app.js) and RealtimeTranslationModule      *)
(* (src/assets/js/modules/realtimeTranslation.js), which show the final    *)
(* transcripts of the session and submit them to the queue.                *)
(***************************************************************************)
EXTENDS Integers, Sequences, FiniteSets, TLC

----------------------------------------------------------------------------
(* Bounds of the model *)

(* Spec: short runs, any target languages, every kind of answer *)
MaxReq == 5
MaxRetry == 2
MaxFatal == 1

(* BurstSpec: runs long enough to fill a batch; the service answers every
   call or fails it transiently, and few requests name another language
   than the default one *)
BurstReq == 12
BurstRetry == 1
BurstForeign == 1

NWorkers == 2

(* Program constants *)

MaxBatchSize == 10
BatchDelayMs == 200
RetryDelayMs == 1000

DefaultLang == "KO"
TargetLangs == {"KO", "EN"}
SourceLangs == {"null"}
HttpStatuses == {403, 429, 500}
RetryCodes == {429, 500, 502, 503, 504}

VARIABLES
    requests,       \* the request objects created by translate(), in submission order
    pendingQueue,   \* this.pendingQueue: sequence of request objects
    isProcessing,   \* this.isProcessing
    workers,        \* activations of processQueue(): where each one is suspended
    outcome,        \* state of each request's promise
    calls,          \* how many times resolve/reject was invoked for each request
    retries,        \* transient failures the service has answered so far
    fatals,         \* other failures the service has answered so far
    budget,         \* what the environment may still do: requests, failures
    sent,           \* body of the network call started in the last turn
    response,       \* response handled in the last turn
    settles,        \* resolve/reject invocations of the last turn, in order
    conns,          \* the calls of connectWebSocket() and the socket each one created
    websocket,      \* this.websocket: 0 (null) or the socket of a call
    mediaStream,    \* this.mediaStream: 0 (null) or a capture
    audioContext,   \* this.audioContext: 0 (null) or a capture
    processor,      \* this.processor: 0 (null) or a capture
    capturing,      \* the captures whose tracks, context and processor are not released
    isRecognizing,  \* this.isRecognizing
    reconnectAttempts, \* this.reconnectAttempts
    reconnectTimers,   \* delays of the pending setTimeout() of handleWebSocketClose
    onEndCount,     \* onEnd callbacks since the last start() that was let in
    exhausted,      \* the session was ended by a close after the last attempt
    lastCall,       \* the last call among start() (let in), stop() (effective), reset()
    userCalls,      \* actions of the user so far: calls of start(), stop() and
                    \* reset(), refusals of the capture of the tab
    handler,        \* the handler that ran in the last turn
    returned,       \* what the call of the last turn returned or threw
    events,         \* callbacks invoked in the last turn, in order
    wire,           \* what the last turn sent, and on which socket, in order
    lastFinalText,  \* this.lastFinalText of the session
    received,       \* the message that onmessage was handed in the last turn
    results,        \* the objects handed to onResult in the last turn, in order
    toggle,         \* elements.realtimeTranslationToggle.checked
    isEnabled,      \* this.isEnabled of the realtime translation module
    hasError,       \* this.hasError of the realtime translation module
    lines,          \* the final results added so far: text and state of the translation
    awaiting,       \* the calls of translateNewText() suspended at translateText()
    delivered,      \* calls of updateTranslationResult() in the last turn, in order
    lastFinal,      \* the last Final event since the page was cleared, if any
    given,          \* the text arrays that translate() was called with, in order
    delays,         \* delays of the reconnections scheduled since the last open
    inputBuffer,    \* the samples handed to the last convertFloat32ToInt16()
    pcm16Buffer,    \* the bytes of the buffer it returned
    sampleCount,    \* samples handed to convertFloat32ToInt16() so far
    byteCount       \* bytes it returned so far

queueVars == <<requests, pendingQueue, isProcessing, workers, outcome, calls,
               retries, fatals, budget, sent, response, settles, given>>

sessionVars == <<conns, websocket, mediaStream, audioContext, processor, capturing,
                 isRecognizing, reconnectAttempts, reconnectTimers, onEndCount,
                 exhausted, lastCall, userCalls, handler, returned, events, wire,
                 lastFinalText, received, results, delays>>

coordinatorVars == <<toggle, isEnabled, hasError, lines, awaiting, delivered,
                     lastFinal>>

encoderVars == <<inputBuffer, pcm16Buffer, sampleCount, byteCount>>

vars == <<queueVars, sessionVars, coordinatorVars, encoderVars>>

----------------------------------------------------------------------------
(* Values *)

Min(a, b) == IF a < b THEN a ELSE b

NoBody == [text |-> <<>>, target_lang |-> "none", source_lang |-> "none"]
NoResponse == [type |-> "none", status |-> 0, hasTranslations |-> FALSE,
               translations |-> <<>>, msgCodes |-> {}]
IdleWorker == [pc |-> "none", batch |-> <<>>, ms |-> 0]

(* What the translation service returns for one text. *)
ServerTranslation(text, lang) == [text |-> <<text, lang>>, detected_source_language |-> "EN"]


----------------------------------------------------------------------------
(* Pure helpers of DeeplClient *)

(* FormBatch with the slice one entry short of the batch size *)
FormBatch_OffByOne(q) ==
    LET firstRequest == q[1]
        n == Min(MaxBatchSize - 1, Len(q))
        spliced == SubSeq(q, 1, n)
        rest == SubSeq(q, n + 1, Len(q))
        same(req) == req.target_lang = firstRequest.target_lang
        other(req) == req.target_lang # firstRequest.target_lang
        differentLang == SelectSeq(rest, other)
    IN  [batch |-> SelectSeq(spliced, same),
         pending |-> differentLang \o rest]

(* FormBatch without the filter on the target language *)
FormBatch_NoFilter(q) ==
    LET firstRequest == q[1]
        n == Min(MaxBatchSize, Len(q))
        spliced == SubSeq(q, 1, n)
        rest == SubSeq(q, n + 1, Len(q))
        other(req) == req.target_lang # firstRequest.target_lang
        differentLang == SelectSeq(rest, other)
    IN  [batch |-> spliced,
         pending |-> differentLang \o rest]

(* processQueue, lines 52-58: the batch taken from the pending list and the
   pending list that is left.  splice() removes the first min(10, length)
   entries; the batch is those of them with the head's target language;
   the entries of the remaining list with another target language are
   then put in front of the remaining list. *)
FormBatch(q) ==
    LET firstRequest == q[1]
        n == Min(MaxBatchSize, Len(q))
        spliced == SubSeq(q, 1, n)
        rest == SubSeq(q, n + 1, Len(q))
        same(req) == req.target_lang = firstRequest.target_lang
        other(req) == req.target_lang # firstRequest.target_lang
        differentLang == SelectSeq(rest, other)
    IN  [batch |-> SelectSeq(spliced, same),
         pending |-> differentLang \o rest]

(* executeBatchTranslation, lines 92-103: the body of the POST. *)
RequestBody(batch) ==
    [text |-> [i \in 1..Len(batch) |-> batch[i].text],
     target_lang |-> batch[1].target_lang,
     source_lang |-> batch[1].source_lang]

(* executeBatchTranslation, lines 115-119, and the errors fetch() and
   response.json() throw: the error object the catch block receives.
   statusCode 0 stands for an error without a statusCode; msgCodes are the
   numbers of RetryCodes that occur in error.message. *)
ErrorOf(resp) ==
    IF resp.type = "http"
    THEN [statusCode |-> resp.status,
          msgCodes |-> {c \in RetryCodes : c = resp.status}]
    ELSE [statusCode |-> 0, msgCodes |-> resp.msgCodes]

(* isRetryableError that takes only 5xx for retryable *)
isRetryableError_Only5xx(error) ==
    IF error.statusCode # 0
    THEN error.statusCode >= 500
    ELSE \E c \in {500, 502, 503, 504} : c \in error.msgCodes

(* isRetryableError, lines 160-172 *)
isRetryableError(error) ==
    IF error.statusCode # 0
    THEN error.statusCode = 429 \/ error.statusCode >= 500
    ELSE \E c \in {429, 500, 502, 503, 504} : c \in error.msgCodes

(* handleBatchSuccess that hands every request the first translation *)
handleBatchSuccess_FirstTranslation(batch, result) ==
    IF result.hasTranslations /\ Len(result.translations) = Len(batch)
    THEN [index \in 1..Len(batch) |->
            LET translation == result.translations[1]
            IN  [req |-> batch[index].id, kind |-> "resolve",
                 value |-> [translations |->
                     <<[text |-> translation.text,
                        detected_source_language |->
                            translation.detected_source_language]>>]]]
    ELSE [index \in 1..Len(batch) |->
            [req |-> batch[index].id, kind |-> "reject",
             value |-> "Unexpected response structure"]]

(* handleBatchSuccess, lines 129-146: the resolve/reject invocations, in order *)
handleBatchSuccess(batch, result) ==
    IF result.hasTranslations /\ Len(result.translations) = Len(batch)
    THEN [index \in 1..Len(batch) |->
            LET translation == result.translations[index]
            IN  [req |-> batch[index].id, kind |-> "resolve",
                 value |-> [translations |->
                     <<[text |-> translation.text,
                        detected_source_language |->
                            translation.detected_source_language]>>]]]
    ELSE [index \in 1..Len(batch) |->
            [req |-> batch[index].id, kind |-> "reject",
             value |-> "Unexpected response structure"]]

(* processQueue, line 79: batch.forEach(req => req.reject(error)) *)
RejectAll(batch, error) ==
    [index \in 1..Len(batch) |->
        [req |-> batch[index].id, kind |-> "reject", value |-> error]]

(* A promise is settled by the first resolve/reject invoked on it; later
   invocations have no effect. *)
SettledOutcome(list) ==
    [r \in DOMAIN outcome |->
        IF outcome[r] # "pending" THEN outcome[r]
        ELSE IF \E i \in DOMAIN list : list[i].req = r
             THEN LET first == CHOOSE i \in DOMAIN list :
                                 /\ list[i].req = r
                                 /\ \A j \in DOMAIN list : list[j].req = r => i <= j
                  IN  IF list[first].kind = "resolve" THEN "resolved" ELSE "rejected"
             ELSE "pending"]

SettledCalls(list) ==
    [r \in DOMAIN calls |->
        calls[r] + Cardinality({i \in DOMAIN list : list[i].req = r})]

----------------------------------------------------------------------------
(* The environment: responses of the translation endpoint *)

HonestTranslations(body) ==
    [i \in 1..Len(body.text) |-> ServerTranslation(body.text[i], body.target_lang)]

OkResponse(tr, has) ==
    [type |-> "ok", status |-> 200, hasTranslations |-> has,
     translations |-> tr, msgCodes |-> {}]

Responses(batch) ==
    LET honest == HonestTranslations(RequestBody(batch))
    IN  {OkResponse(honest, TRUE),
         OkResponse(SubSeq(honest, 1, Len(honest) - 1), TRUE),
         OkResponse(Append(honest, ServerTranslation(0, "KO")), TRUE),
         OkResponse(<<>>, FALSE)}
        \cup {[type |-> "http", status |-> s, hasTranslations |-> FALSE,
               translations |-> <<>>, msgCodes |-> {}] : s \in HttpStatuses}
        \cup {[type |-> "throw", status |-> 0, hasTranslations |-> FALSE,
               translations |-> <<>>, msgCodes |-> m] : m \in {{}, {503}}}

(* The service answers at most budget.retry transient failures (rate
   limiting, server errors, network errors naming one) and at most
   budget.fatal others. *)
IsTransient(resp) ==
    \/ resp.type = "http" /\ (resp.status = 429 \/ resp.status >= 500)
    \/ resp.type = "throw" /\ resp.msgCodes # {}

IsHonest(resp, batch) ==
    resp = OkResponse(HonestTranslations(RequestBody(batch)), TRUE)

----------------------------------------------------------------------------
(* The state machine *)

(* constructor, lines 6-9: a new client, nothing submitted *)
Constructed ==
    /\ requests = <<>>
    /\ pendingQueue = <<>>
    /\ isProcessing = FALSE
    /\ workers = [w \in 1..NWorkers |-> IdleWorker]
    /\ outcome = <<>>
    /\ calls = <<>>
    /\ retries = 0
    /\ fatals = 0
    /\ sent = NoBody
    /\ response = NoResponse
    /\ settles = <<>>
    /\ given = <<>>

(* What a turn of the session leaves behind when no handler of it ran *)
NoHandler == [name |-> "none", conn |-> 0, code |-> 0]

(* No message was handed to onmessage *)
NoMessage ==
    [parses |-> FALSE, type |-> "none", transcript |-> <<>>,
     turn_is_formatted |-> FALSE, end_of_turn |-> FALSE]

(* constructor of the session, lines 6-31: no socket, no capture, not
   recognizing, no reconnection counted *)
SessionConstructed ==
    /\ conns = <<>>
    /\ websocket = 0
    /\ mediaStream = 0
    /\ audioContext = 0
    /\ processor = 0
    /\ capturing = {}
    /\ isRecognizing = FALSE
    /\ reconnectAttempts = 0
    /\ reconnectTimers = <<>>
    /\ onEndCount = 0
    /\ exhausted = FALSE
    /\ lastCall = "none"
    /\ userCalls = 0
    /\ handler = NoHandler
    /\ returned = "none"
    /\ events = <<>>
    /\ wire = <<>>
    /\ lastFinalText = <<>>
    /\ received = NoMessage
    /\ results = <<>>
    /\ delays = <<>>

NoFinal == [seen |-> FALSE, text |-> <<>>]

(* constructor of RealtimeTranslationModule, realtimeTranslation.js lines
   5-12, on a page that shows no result *)
CoordinatorConstructed ==
    /\ isEnabled = FALSE
    /\ hasError = FALSE
    /\ lines = <<>>
    /\ awaiting = {}
    /\ delivered = <<>>
    /\ lastFinal = NoFinal

(* No buffer of samples was converted yet *)
EncoderConstructed ==
    /\ inputBuffer = <<>>
    /\ pcm16Buffer = <<>>
    /\ sampleCount = 0
    /\ byteCount = 0

(* A turn that converts no buffer of samples *)
EncoderIdle == UNCHANGED encoderVars

Init ==
    /\ Constructed
    /\ SessionConstructed
    /\ CoordinatorConstructed
    /\ EncoderConstructed
    /\ toggle = FALSE
    /\ budget = [req |-> MaxReq, retry |-> MaxRetry, fatal |-> MaxFatal,
                 foreign |-> MaxReq]

BurstInit ==
    /\ Constructed
    /\ SessionConstructed
    /\ CoordinatorConstructed
    /\ EncoderConstructed
    /\ toggle = FALSE
    /\ budget = [req |-> BurstReq, retry |-> BurstRetry, fatal |-> 0,
                 foreign |-> BurstForeign]

(* a loop that stops after the batch it dispatched, whatever is pending *)
RunLoop_SinglePass(w, q, processing) ==
    IF Len(q) = 0 \/ workers[w].pc = "timer"
    THEN /\ pendingQueue' = q
         /\ isProcessing' = FALSE
         /\ workers' = [workers EXCEPT ![w] = IdleWorker]
         /\ sent' = NoBody
    ELSE LET fb == FormBatch(q)
         IN  /\ pendingQueue' = fb.pending
             /\ isProcessing' = processing
             /\ workers' = [workers EXCEPT
                              ![w] = [pc |-> "fetch", batch |-> fb.batch, ms |-> 0]]
             /\ sent' = RequestBody(fb.batch)

(* processQueue, lines 50-61 and 84: one pass of the while loop of
   activation w up to its next await, on the pending list q. *)
RunLoop(w, q, processing) ==
    IF Len(q) = 0
    THEN /\ pendingQueue' = q
         /\ isProcessing' = FALSE
         /\ workers' = [workers EXCEPT ![w] = IdleWorker]
         /\ sent' = NoBody
    ELSE LET fb == FormBatch(q)
         IN  /\ pendingQueue' = fb.pending
             /\ isProcessing' = processing
             /\ workers' = [workers EXCEPT
                              ![w] = [pc |-> "fetch", batch |-> fb.batch, ms |-> 0]]
             /\ sent' = RequestBody(fb.batch)

(* A turn of the queue runs no handler of the session *)
SessionIdle ==
    /\ handler' = NoHandler
    /\ returned' = "none"
    /\ events' = <<>>
    /\ wire' = <<>>
    /\ received' = NoMessage
    /\ results' = <<>>
    /\ UNCHANGED <<conns, websocket, mediaStream, audioContext, processor, capturing,
                   isRecognizing, reconnectAttempts, reconnectTimers, onEndCount,
                   exhausted, lastCall, userCalls, lastFinalText, delays>>
    /\ EncoderIdle

(* A turn that runs no code of the page *)
CoordinatorIdle ==
    /\ delivered' = <<>>
    /\ UNCHANGED <<toggle, isEnabled, hasError, lines, awaiting, lastFinal>>

(* The invocations of a turn that settle a promise somebody awaits in
   translateNewText(): the first invocation on a pending promise *)
Settling(list) ==
    {i \in DOMAIN list :
        /\ outcome[list[i].req] = "pending"
        /\ \A j \in DOMAIN list : list[j].req = list[i].req => i <= j
        /\ \E a \in awaiting : a.req = list[i].req}

ResultIdOf(r) == (CHOOSE a \in awaiting : a.req = r).resultId

(* a translateNewText() that shows a translation only while enabled *)
Succeeded_WhileEnabled(settle) ==
    settle.kind = "resolve" /\ Len(settle.value.translations) > 0 /\ isEnabled

(* translateText(), part_000 lines 34-42, and translateNewText(),
   realtimeTranslation.js line 46: the request was resolved with a
   translation, result.success is true *)
Succeeded(settle) ==
    settle.kind = "resolve" /\ Len(settle.value.translations) > 0

(* translateNewText(), realtimeTranslation.js lines 46-48: the calls of
   updateTranslationResult() of a turn *)
RECURSIVE Updates(_, _)
Updates(list, n) ==
    IF n = 0 THEN <<>>
    ELSE IF n \in Settling(list) /\ Succeeded(list[n])
         THEN Append(Updates(list, n - 1),
                     [resultId |-> ResultIdOf(list[n].req),
                      translatedText |-> list[n].value.translations[1].text])
         ELSE Updates(list, n - 1)

(* updateTranslationResult(), realtimeTranslation.js lines 151-167: the
   text replaces the placeholder of the line, if the page still shows it *)
updateTranslationResult(shown, update) ==
    IF shown[update.resultId].translation = "translating"
    THEN [shown EXCEPT ![update.resultId].translation = "translated"]
    ELSE shown

RECURSIVE UpdatedLines(_, _)
UpdatedLines(shown, updates) ==
    IF updates = <<>> THEN shown
    ELSE UpdatedLines(updateTranslationResult(shown, Head(updates)), Tail(updates))

(* handleTranslationError(), realtimeTranslation.js lines 172-181, run for
   every translateText() that returned a failure *)
handleTranslationError(failed) ==
    /\ hasError' = (hasError \/ failed)
    /\ isEnabled' = (isEnabled /\ ~failed)

(* translateNewText(), realtimeTranslation.js lines 45-61, resumed by the
   promises that the turn settled *)
Continue(list) ==
    LET updates == Updates(list, Len(list))
        failed == \E i \in Settling(list) : ~Succeeded(list[i])
    IN  /\ delivered' = updates
        /\ lines' = UpdatedLines(lines, updates)
        /\ awaiting' = {a \in awaiting :
                           \A i \in Settling(list) : list[i].req # a.req}
        /\ handleTranslationError(failed)
        /\ UNCHANGED <<toggle, lastFinal>>

(* the guard of processQueue without the test of isProcessing *)
StartsWorker_Unguarded(q) == Len(q) # 0

(* processQueue, line 44: the guard that lets a call start the worker loop *)
StartsWorker(q) == ~isProcessing /\ Len(q) # 0

FreeSlot == CHOOSE w \in 1..NWorkers :
                /\ workers[w].pc = "none"
                /\ \A v \in 1..NWorkers : workers[v].pc = "none" => w <= v

(* Requests submitted with a target language other than the default one *)
Foreign == Cardinality({r \in DOMAIN requests : requests[r].target_lang # DefaultLang})

(* translate(), lines 18-37, with the synchronous part of processQueue() *)
translate(text, target_lang, source_lang) ==
    /\ Len(requests) < budget.req
    /\ target_lang # DefaultLang => Foreign < budget.foreign
    /\ Len(text) # 0
    /\ LET r == Len(requests) + 1
           req == [text |-> text[1], target_lang |-> target_lang,
                   source_lang |-> source_lang, id |-> r]
           q == Append(pendingQueue, req)
       IN  /\ requests' = Append(requests, req)
           /\ given' = Append(given, text)
           /\ outcome' = Append(outcome, "pending")
           /\ calls' = Append(calls, 0)
           /\ IF StartsWorker(q)
              THEN /\ \E w \in 1..NWorkers : workers[w].pc = "none"
                   /\ RunLoop(FreeSlot, q, TRUE)
              ELSE /\ pendingQueue' = q
                   /\ UNCHANGED <<isProcessing, workers>>
                   /\ sent' = NoBody
    /\ response' = NoResponse
    /\ settles' = <<>>
    /\ UNCHANGED <<retries, fatals, budget>>

(* A call of translate() from outside the page *)
Translate(text, target_lang, source_lang) ==
    /\ translate(text, target_lang, source_lang)
    /\ SessionIdle
    /\ CoordinatorIdle

(* processQueue, lines 61-65: the dispatch returned a body *)
ReturnsBody(w, resp) ==
    /\ resp.type = "ok"
    /\ ~IsHonest(resp, workers[w].batch) => fatals < budget.fatal
    /\ fatals' = IF IsHonest(resp, workers[w].batch) THEN fatals ELSE fatals + 1
    /\ LET list == handleBatchSuccess(workers[w].batch, resp)
       IN  /\ settles' = list
           /\ outcome' = SettledOutcome(list)
           /\ calls' = SettledCalls(list)
    /\ workers' = [workers EXCEPT ![w] = [pc |-> "timer", batch |-> <<>>,
                                          ms |-> BatchDelayMs]]
    /\ response' = resp
    /\ sent' = NoBody
    /\ UNCHANGED <<given, requests, pendingQueue, isProcessing, retries, budget>>
    /\ SessionIdle
    /\ Continue(settles')

(* processQueue, lines 67-81: the dispatch threw *)
DispatchReturns(w) ==
    /\ workers[w].pc = "fetch"
    /\ \E resp \in Responses(workers[w].batch) : ReturnsBody(w, resp)

(* processQueue, lines 67-81: the dispatch threw *)
Throws(w, resp) ==
    /\ resp.type # "ok"
    /\ IF IsTransient(resp)
       THEN retries < budget.retry /\ retries' = retries + 1 /\ UNCHANGED fatals
       ELSE fatals < budget.fatal /\ fatals' = fatals + 1 /\ UNCHANGED retries
    /\ response' = resp
    /\ LET error == ErrorOf(resp)
           batch == workers[w].batch
       IN  IF isRetryableError(error)
           THEN /\ pendingQueue' = batch \o pendingQueue
                /\ workers' = [workers EXCEPT ![w] = [pc |-> "timer", batch |-> <<>>,
                                                      ms |-> RetryDelayMs]]
                /\ settles' = <<>>
                /\ sent' = NoBody
                /\ UNCHANGED <<isProcessing, outcome, calls>>
           ELSE LET list == RejectAll(batch, error)
                IN  /\ settles' = list
                    /\ outcome' = SettledOutcome(list)
                    /\ calls' = SettledCalls(list)
                    /\ RunLoop(w, pendingQueue, isProcessing)
    /\ UNCHANGED <<given, requests, budget>>
    /\ SessionIdle
    /\ Continue(settles')

DispatchThrows(w) ==
    /\ workers[w].pc = "fetch"
    /\ \E resp \in Responses(workers[w].batch) : Throws(w, resp)

(* delay(), lines 152-154: the timer of activation w fires and the loop goes on *)
TimerFires(w) ==
    /\ workers[w].pc = "timer"
    /\ RunLoop(w, pendingQueue, isProcessing)
    /\ response' = NoResponse
    /\ settles' = <<>>
    /\ UNCHANGED <<given, requests, outcome, calls, retries, fatals, budget>>
    /\ SessionIdle
    /\ CoordinatorIdle

TextArrays == {<<Len(requests) + 1>>}

Next ==
    \/ \E text \in TextArrays, tl \in TargetLangs, sl \in SourceLangs :
          Translate(text, tl, sl)
    \/ \E w \in 1..NWorkers : DispatchReturns(w)
    \/ \E w \in 1..NWorkers : DispatchThrows(w)
    \/ \E w \in 1..NWorkers : TimerFires(w)

Spec == Init /\ [][Next]_vars

BurstSpec == BurstInit /\ [][Next]_vars

----------------------------------------------------------------------------
(* Vocabulary of the properties *)

Ids(seq) == [i \in 1..Len(seq) |-> seq[i].id]
Occurrences(seq, req) == Cardinality({i \in DOMAIN seq : seq[i] = req})
Active == {w \in 1..NWorkers : workers[w].pc # "none"}
InFlight == {w \in 1..NWorkers : workers[w].pc = "fetch"}
Settled(r) == outcome[r] # "pending"

(* The worker has stopped and nothing is left to drain. *)
Quiescent == Active = {} /\ ~isProcessing /\ pendingQueue = <<>>

(* In a turn that dispatches, the pending list the loop started from. *)
LoopHeadQueue ==
    IF Len(requests') > Len(requests)
    THEN Append(pendingQueue, requests'[Len(requests')])
    ELSE pendingQueue

(* HTTP statuses the interface calls retryable: 429 and 5xx. *)
RetryableStatus(status) == status = 429 \/ (status >= 500 /\ status <= 599)

----------------------------------------------------------------------------
(* C1: every request submitted through translate() is eventually settled,  *)
(* and settled exactly once.  Stated on the final result: once the worker  *)
(* has stopped with an empty pending list, every submitted request has     *)
(* been resolved or rejected by exactly one resolve/reject invocation.     *)
C1_EverySettledOnce ==
    Quiescent => \A r \in DOMAIN requests : Settled(r) /\ calls[r] = 1

(* C2: forming a batch keeps every request that is not dispatched: the     *)
(* requests with another target language than the head stay in the pending *)
(* list once and in their order, nothing leaves the pending list except    *)
(* into the batch, and nothing appears twice in it.                        *)
C2_DeferredKeptOnce ==
    [][sent' # NoBody =>
        \E w \in 1..NWorkers :
            /\ workers'[w].pc = "fetch"
            /\ RequestBody(workers'[w].batch) = sent'
            /\ LET q == LoopHeadQueue
                   b == workers'[w].batch
                   other(req) == req.target_lang # q[1].target_lang
               IN  /\ SelectSeq(pendingQueue', other) = SelectSeq(q, other)
                   /\ \A i \in DOMAIN q :
                         Occurrences(b, q[i]) + Occurrences(pendingQueue', q[i])
                             = Occurrences(q, q[i])
                   /\ \A i \in DOMAIN q :
                         Occurrences(q, q[i]) = 1
                             => Occurrences(pendingQueue', q[i]) <= 1]_vars

(* C3: a batch whose dispatch fails with HTTP 429 or 5xx is put back, in    *)
(* its order, in front of the requests not yet attempted, nothing is        *)
(* settled or dispatched in that turn, the worker waits the backoff delay,  *)
(* and the dispatch that follows the backoff loses and duplicates nothing:  *)
(* every request of the pending list is then in the batch or still pending, *)
(* as often as before.                                                      *)
C3_RetryKeepsEveryRequest ==
    [][\A w \in 1..NWorkers :
        /\ (/\ workers[w].pc = "fetch"
            /\ workers'[w] # workers[w]
            /\ response'.type = "http"
            /\ RetryableStatus(response'.status))
           => /\ pendingQueue' = workers[w].batch \o pendingQueue
              /\ workers'[w].pc = "timer" /\ workers'[w].ms = 1000
              /\ settles' = <<>> /\ outcome' = outcome /\ sent' = NoBody
        /\ (/\ workers[w].pc = "timer"
            /\ workers[w].ms = 1000
            /\ workers'[w] # workers[w])
           => \A i \in DOMAIN pendingQueue :
                 Occurrences(workers'[w].batch, pendingQueue[i])
                   + Occurrences(pendingQueue', pendingQueue[i])
                     = Occurrences(pendingQueue, pendingQueue[i])]_vars

SeqRange(a, b) == [i \in 1..(b - a + 1) |-> a + i - 1]

(* Twelve requests, all with one target language, and no transient failure *)
Same12 ==
    /\ Len(requests) = 12
    /\ \A r \in DOMAIN requests : requests[r].target_lang = requests[1].target_lang
    /\ retries = 0

(* C4 as stated: twelve requests with one target language submitted one    *)
(* after another to an idle client go out as a batch of the first ten and  *)
(* then a batch of the last two: while the twelve are submitted and the    *)
(* first is not yet settled, a network call in flight carries the first    *)
(* ten, and the call that starts with the eleventh carries <<11, 12>>.     *)
C4_TenThenTwo ==
    Same12 =>
        /\ \A w \in InFlight :
              ~Settled(1) => Ids(workers[w].batch) = SeqRange(1, 10)
        /\ (sent # NoBody /\ sent.text[1] = 11) => sent.text = <<11, 12>>

(* C4 as amended: the first translate() call dispatches its request alone   *)
(* at once; the requests submitted before the next drain cycle wait in      *)
(* submission order, and with all twelve submitted by then (and no          *)
(* retryable failure) the next dispatches carry requests 2..11 and then     *)
(* request 12, texts in submission order.                                   *)
C4_OneTenOne ==
    Same12 =>
        /\ \A w \in InFlight :
              ~Settled(1) => /\ Ids(workers[w].batch) = <<1>>
                             /\ Ids(pendingQueue) = SeqRange(2, 12)
        /\ (sent # NoBody /\ sent.text[1] = 2)
              => /\ sent.text = SeqRange(2, 11)
                 /\ Ids(pendingQueue) = <<12>>
        /\ (sent # NoBody /\ sent.text[1] = 12) => sent.text = <<12>>

C4_Witness ==
    /\ Same12
    /\ sent # NoBody
    /\ sent.text = SeqRange(2, 11)
    /\ Settled(1)

(* C5: requests with the same target language are settled in submission    *)
(* order: in no turn is a request settled while an earlier request with    *)
(* the same target language is left unsettled.                             *)
C5_SameLangInOrder ==
    [][\A r1, r2 \in DOMAIN requests :
        (/\ r1 < r2
         /\ requests[r1].target_lang = requests[r2].target_lang
         /\ outcome[r2] = "pending"
         /\ outcome'[r2] # "pending")
        => outcome'[r1] # "pending"]_vars

(* C6: no request is rejected because of a retryable failure: a turn that  *)
(* handles HTTP 429 or 5xx invokes no resolve/reject and settles nothing,   *)
(* however many such failures came before, and a request becomes rejected   *)
(* only in a turn that handles a non-retryable failure (another HTTP        *)
(* status, an error without status, or a response of unexpected shape).     *)
C6_NoRejectOnRetryable ==
    [][/\ (response'.type = "http" /\ RetryableStatus(response'.status))
            => (settles' = <<>> /\ outcome' = outcome /\ calls' = calls)
       /\ \A r \in DOMAIN requests :
            (outcome[r] = "pending" /\ outcome'[r] = "rejected")
            => \/ response'.type = "http" /\ ~RetryableStatus(response'.status)
               \/ response'.type = "throw"
               \/ /\ response'.type = "ok"
                  /\ \/ ~response'.hasTranslations
                     \/ Cardinality({i \in DOMAIN settles' : TRUE})
                          # Len(response'.translations)]_vars

C6_Witness ==
    /\ retries = 2
    /\ response.type = "http"
    /\ response.status = 429
    /\ Len(requests) = 1
    /\ outcome[1] = "pending"
    /\ Ids(pendingQueue) = <<1>>

(* C7: when a dispatch fails with HTTP 403 or another non-retryable status, *)
(* every request of the batch is rejected with the error, none of them is   *)
(* put back or dispatched again, and the requests outside the batch are     *)
(* unaffected: they keep their state and stay queued or go out next.        *)
C7_FatalRejectsOnlyBatch ==
    [][\A w \in 1..NWorkers :
        (/\ workers[w].pc = "fetch"
         /\ workers'[w] # workers[w]
         /\ response'.type = "http"
         /\ ~RetryableStatus(response'.status))
        => LET b == workers[w].batch
               next == IF workers'[w].pc = "fetch" THEN workers'[w].batch ELSE <<>>
           IN  /\ Len(settles') = Len(b)
               /\ \A i \in DOMAIN b :
                     /\ settles'[i].req = b[i].id
                     /\ settles'[i].kind = "reject"
                     /\ settles'[i].value.statusCode = response'.status
                     /\ outcome'[b[i].id] = "rejected"
                     /\ Occurrences(pendingQueue', b[i]) = 0
                     /\ Occurrences(next, b[i]) = 0
               /\ \A r \in DOMAIN requests :
                     (\A i \in DOMAIN b : b[i].id # r) => outcome'[r] = outcome[r]
               /\ \A j \in DOMAIN pendingQueue :
                     Occurrences(next, pendingQueue[j])
                       + Occurrences(pendingQueue', pendingQueue[j])
                         = Occurrences(pendingQueue, pendingQueue[j])]_vars

(* C8: at most one network call is in flight and at most one worker loop    *)
(* runs; a translate() call made while the worker loop runs only appends    *)
(* its request to the pending list and starts nothing.                      *)
C8_SingleWorker ==
    /\ [](Cardinality(InFlight) <= 1 /\ Cardinality(Active) <= 1)
    /\ [][(Len(requests') > Len(requests) /\ Active # {})
            => /\ pendingQueue' = Append(pendingQueue, requests'[Len(requests')])
               /\ workers' = workers
               /\ sent' = NoBody
               /\ isProcessing' = isProcessing]_vars

(* a translate() call has just arrived during the retry backoff *)
C8_Witness ==
    /\ \E w \in 1..NWorkers : workers[w].pc = "timer" /\ workers[w].ms = 1000
    /\ Len(pendingQueue) >= 2
    /\ pendingQueue[Len(pendingQueue)].id = Len(requests)
    /\ response = NoResponse
    /\ retries = 1
    /\ \A r \in DOMAIN requests : outcome[r] = "pending"

(* C9: every dispatched batch holds between 1 and 10 requests, starts with  *)
(* the request that was at the head of the pending list, and all its        *)
(* requests have that request's target language.                            *)
C9_BatchShape ==
    [][sent' # NoBody =>
        \E w \in 1..NWorkers :
            /\ workers'[w].pc = "fetch"
            /\ RequestBody(workers'[w].batch) = sent'
            /\ LET b == workers'[w].batch
                   head == LoopHeadQueue[1]
               IN  /\ Len(b) >= 1 /\ Len(b) <= 10
                   /\ b[1] = head
                   /\ \A i \in DOMAIN b : b[i].target_lang = head.target_lang
                   /\ Len(sent'.text) = Len(b)
                   /\ sent'.target_lang = head.target_lang]_vars

(* a batch of ten is in flight and a request of another language waits *)
C9_Witness ==
    \E w \in InFlight :
        /\ Len(workers[w].batch) = 10
        /\ sent # NoBody
        /\ \E i \in DOMAIN pendingQueue :
              pendingQueue[i].target_lang # workers[w].batch[1].target_lang

(* C10: when a dispatch returns a body, the request at position i of the    *)
(* batch is resolved with the translation at position i; if the number of   *)
(* translations differs from the batch size (or there are none) every       *)
(* request of the batch is rejected and the batch is not put back.          *)
C10_PositionalMapping ==
    [][\A w \in 1..NWorkers :
        (/\ workers[w].pc = "fetch"
         /\ workers'[w] # workers[w]
         /\ response'.type = "ok")
        => LET b == workers[w].batch
               tr == response'.translations
           IN  /\ Len(settles') = Len(b)
               /\ IF response'.hasTranslations /\ Len(tr) = Len(b)
                  THEN \A i \in DOMAIN b :
                          /\ settles'[i].req = b[i].id
                          /\ settles'[i].kind = "resolve"
                          /\ settles'[i].value.translations[1].text = tr[i].text
                          /\ outcome[b[i].id] = "pending"
                                => outcome'[b[i].id] = "resolved"
                  ELSE /\ \A i \in DOMAIN b :
                             /\ settles'[i].req = b[i].id
                             /\ settles'[i].kind = "reject"
                             /\ outcome[b[i].id] = "pending"
                                   => outcome'[b[i].id] = "rejected"
                       /\ pendingQueue' = pendingQueue
                       /\ sent' = NoBody]_vars

(* a batch of several requests has just been resolved *)
C10_Witness ==
    /\ response.type = "ok"
    /\ response.hasTranslations
    /\ Len(settles) >= 3
    /\ Len(response.translations) = Len(settles)
    /\ \A i \in DOMAIN settles :
          /\ settles[i].kind = "resolve"
          /\ outcome[settles[i].req] = "resolved"

----------------------------------------------------------------------------
(* The transcription session: AssemblyAISpeechRecognitionModule *)

(* Bounds of the model: calls of connectWebSocket() in a run, and calls of
   start(), stop() and reset() *)
MaxConns == 4
MaxCalls == 2

(* Program constants *)

maxReconnectAttempts == 3
reconnectDelay == 1000

(* Close codes a close event may carry: normal closure, abnormal closure *)
NormalClosure == 1000
AbnormalClosure == 1006
CloseCodes == {NormalClosure, AbnormalClosure}

(* WebSocket.readyState of a socket that still is, or may become, usable *)
Live == {"CONNECTING", "OPEN"}

(* A call of connectWebSocket(): who called it, where it is suspended
   ("url": awaiting getWebSocketUrl(); "socket": awaiting the promise of
   lines 116-149; "audio": in startAudioCapture(), awaiting the capture of
   the tab; "microphone": there, awaiting the capture of the microphone;
   "done"), the readyState of the socket it created ("NONE" before line
   110), and whether its connection timeout of line 144 is still to fire
   on a pending promise. *)
NewConn(caller) ==
    [caller |-> caller, pc |-> "url", readyState |-> "NONE", timeout |-> FALSE]

Turn(name, conn, code) == [name |-> name, conn |-> conn, code |-> code]

(* The promise of call i of connectWebSocket() is not settled *)
Pending(i) == conns[i].pc \in {"url", "socket"}

(* Rejection of the promise of call i, in the caller: the catch of start(),
   lines 353-357, clears isRecognizing and rethrows; the catch of
   reconnectWebSocket(), lines 241-246, invokes onError. *)
RecognizingAfterReject(i) ==
    IF Pending(i) /\ conns[i].caller = "start" THEN FALSE ELSE isRecognizing

EventsOfReject(i) ==
    IF Pending(i) /\ conns[i].caller = "reconnect" THEN <<"onError">> ELSE <<>>

ReturnedOfReject(i) ==
    IF Pending(i) /\ conns[i].caller = "start" THEN "error" ELSE "none"

(* the test of start() that lets every call in *)
AlreadyRunning_Never == FALSE

(* start(), line 335 *)
AlreadyRunning == isRecognizing

(* a test of onaudioprocess that looks for a socket, not for its state *)
SocketReady_AnySocket == websocket # 0

(* onaudioprocess, line 297: the frame is sent only on an open socket *)
SocketReady == websocket # 0 /\ conns[websocket].readyState = "OPEN"

(* a delay that doubles with every attempt *)
ReconnectDelayFor_Doubling(attempt) == reconnectDelay * 2 ^ (attempt - 1)

(* handleWebSocketClose, line 223: delay of the reconnection timer *)
ReconnectDelayFor(attempt) == reconnectDelay * attempt

(* cleanup(), lines 386-414, on the sockets cs with this.websocket = ws *)
cleanup(cs, ws) ==
    /\ capturing' = capturing \ {processor, audioContext, mediaStream}
    /\ processor' = 0
    /\ audioContext' = 0
    /\ mediaStream' = 0
    /\ IF ws # 0 /\ cs[ws].readyState = "OPEN"
       THEN /\ wire' = <<[socket |-> ws, data |-> "Terminate"]>>
            /\ conns' = [cs EXCEPT ![ws].readyState = "CLOSING"]
       ELSE /\ wire' = <<>>
            /\ conns' = cs
    /\ websocket' = 0

(* a test that lets every close, while recognition is desired, count an
   attempt *)
CountsReconnect_Unbounded(desired) == desired

(* handleWebSocketClose, line 217: the close counts a reconnect attempt *)
CountsReconnect(desired) == desired /\ reconnectAttempts < maxReconnectAttempts

(* onclose, lines 132-141, with handleWebSocketClose(), lines 216-230, run
   on the sockets cs when isRecognizing is desired, after the callbacks evs *)
handleWebSocketClose(desired, cs, evs) ==
    IF CountsReconnect(desired)
    THEN /\ reconnectAttempts' = reconnectAttempts + 1
         /\ reconnectTimers' =
                Append(reconnectTimers, ReconnectDelayFor(reconnectAttempts + 1))
         /\ conns' = cs
         /\ websocket' = 0
         /\ wire' = <<>>
         /\ events' = evs
         /\ UNCHANGED <<mediaStream, audioContext, processor, capturing,
                        onEndCount, exhausted>>
    ELSE /\ cleanup(cs, 0)
         /\ events' = Append(evs, "onEnd")
         /\ onEndCount' = onEndCount + 1
         /\ exhausted' = (exhausted \/ desired)
         /\ UNCHANGED <<reconnectAttempts, reconnectTimers>>

(* A turn of the session or of the page starts no network call of the
   queue and settles no request *)
QueueIdle ==
    /\ sent' = NoBody
    /\ response' = NoResponse
    /\ settles' = <<>>
    /\ UNCHANGED <<given, requests, pendingQueue, isProcessing, workers, outcome, calls,
                   retries, fatals, budget>>

(* A turn that handles no message *)
Silent ==
    /\ received' = NoMessage
    /\ results' = <<>>
    /\ UNCHANGED lastFinalText
    /\ delays' = IF reconnectAttempts' = reconnectAttempts + 1
                 THEN Append(delays, reconnectTimers'[Len(reconnectTimers')])
                 ELSE IF reconnectAttempts' = 0 THEN <<>> ELSE delays
    /\ EncoderIdle

(* setEnabled(), realtimeTranslation.js lines 17-27 *)
setEnabled(enabled) ==
    /\ isEnabled' = enabled
    /\ hasError' = FALSE

(* clearTranslations() and clearAll() of the page: no line is shown *)
Cleared(shown) == [k \in DOMAIN shown |-> [shown[k] EXCEPT !.translation = "cleared"]]

(* The callers of the session in app.js: startRecognition(), lines 121-135,
   resumes when start() returned, stopRecognition(), lines 140-151, when
   stop() returned; clearAll(), lines 156-163, resets every module *)
AppContinues ==
    /\ delivered' = <<>>
    /\ UNCHANGED <<toggle, awaiting>>
    /\ CASE handler'.name = "stop" ->
                setEnabled(FALSE) /\ UNCHANGED <<lines, lastFinal>>
         [] handler'.name = "reset" ->
                setEnabled(FALSE) /\ lines' = Cleared(lines) /\ lastFinal' = NoFinal
         [] /\ handler'.name \notin {"stop", "reset"}
            /\ returned' \in {"true", "already running"} ->
                setEnabled(toggle) /\ UNCHANGED <<lines, lastFinal>>
         [] OTHER -> UNCHANGED <<isEnabled, hasError, lines, lastFinal>>

(* start(), lines 334-358, up to the fetch of getWebSocketUrl() *)
Start ==
    /\ userCalls < MaxCalls
    /\ userCalls' = userCalls + 1
    /\ IF AlreadyRunning
       THEN /\ returned' = "already running"
            /\ UNCHANGED <<conns, isRecognizing, onEndCount, exhausted, lastCall>>
       ELSE /\ Len(conns) < MaxConns
            /\ isRecognizing' = TRUE
            /\ conns' = Append(conns, NewConn("start"))
            /\ returned' = "pending"
            /\ onEndCount' = 0
            /\ exhausted' = FALSE
            /\ lastCall' = "start"
    /\ handler' = Turn("start", 0, 0)
    /\ events' = <<>>
    /\ wire' = <<>>
    /\ UNCHANGED <<websocket, mediaStream, audioContext, processor, capturing,
                   reconnectAttempts, reconnectTimers>>
    /\ QueueIdle
    /\ Silent
    /\ AppContinues

(* stop(), lines 363-381 *)
Stop ==
    /\ userCalls < MaxCalls
    /\ userCalls' = userCalls + 1
    /\ IF ~isRecognizing
       THEN /\ returned' = "false"
            /\ events' = <<>>
            /\ wire' = <<>>
            /\ UNCHANGED <<conns, websocket, mediaStream, audioContext, processor,
                           capturing, isRecognizing, onEndCount, lastCall>>
       ELSE /\ isRecognizing' = FALSE
            /\ cleanup(conns, websocket)
            /\ events' = <<"onEnd">>
            /\ onEndCount' = onEndCount + 1
            /\ returned' = "true"
            /\ lastCall' = "stop"
    /\ handler' = Turn("stop", 0, 0)
    /\ UNCHANGED <<reconnectAttempts, reconnectTimers, exhausted>>
    /\ QueueIdle
    /\ Silent
    /\ AppContinues

(* reset(), lines 439-444 *)
Reset ==
    /\ userCalls < MaxCalls
    /\ userCalls' = userCalls + 1
    /\ isRecognizing' = FALSE
    /\ reconnectAttempts' = 0
    /\ cleanup(conns, websocket)
    /\ lastCall' = "reset"
    /\ handler' = Turn("reset", 0, 0)
    /\ returned' = "none"
    /\ events' = <<>>
    /\ UNCHANGED <<reconnectTimers, onEndCount, exhausted>>
    /\ QueueIdle
    /\ received' = NoMessage
    /\ results' = <<>>
    /\ lastFinalText' = <<>>
    /\ delays' = <<>>
    /\ EncoderIdle
    /\ AppContinues

(* connectWebSocket(), lines 106-148: the token function answered call i
   with a URL; the socket is created and becomes this.websocket *)
UrlArrives(i) ==
    /\ conns[i].pc = "url"
    /\ conns' = [conns EXCEPT ![i] = [@ EXCEPT !.pc = "socket",
                                               !.readyState = "CONNECTING",
                                               !.timeout = TRUE]]
    /\ websocket' = i
    /\ handler' = Turn("url", i, 0)
    /\ returned' = "none"
    /\ events' = <<>>
    /\ wire' = <<>>
    /\ UNCHANGED <<mediaStream, audioContext, processor, capturing, isRecognizing,
                   reconnectAttempts, reconnectTimers, onEndCount, exhausted,
                   lastCall, userCalls>>
    /\ QueueIdle
    /\ Silent
    /\ AppContinues

(* getWebSocketUrl(), lines 88-97, and connectWebSocket(), lines 150-152:
   the token function failed call i; no socket is created *)
UrlFails(i) ==
    /\ conns[i].pc = "url"
    /\ conns' = [conns EXCEPT ![i].pc = "done"]
    /\ isRecognizing' = RecognizingAfterReject(i)
    /\ events' = EventsOfReject(i)
    /\ returned' = ReturnedOfReject(i)
    /\ handler' = Turn("url failed", i, 0)
    /\ wire' = <<>>
    /\ UNCHANGED <<websocket, mediaStream, audioContext, processor, capturing,
                   reconnectAttempts, reconnectTimers, onEndCount, exhausted,
                   lastCall, userCalls>>
    /\ QueueIdle
    /\ Silent
    /\ AppContinues

(* onopen, lines 117-121, and what the caller does once the promise is
   resolved: start(), line 346, and reconnectWebSocket(), lines 238-240,
   call startAudioCapture(), which awaits the capture *)
SocketOpens(i) ==
    /\ conns[i].readyState = "CONNECTING"
    /\ reconnectAttempts' = 0
    /\ conns' = [conns EXCEPT ![i] =
                    [@ EXCEPT !.readyState = "OPEN",
                              !.timeout = FALSE,
                              !.pc = IF conns[i].pc # "socket" THEN conns[i].pc
                                     ELSE IF conns[i].caller = "start" \/ mediaStream # 0
                                          THEN "audio"
                                          ELSE "done"]]
    /\ handler' = Turn("open", i, 0)
    /\ returned' = "none"
    /\ events' = <<>>
    /\ wire' = <<>>
    /\ UNCHANGED <<websocket, mediaStream, audioContext, processor, capturing,
                   isRecognizing, reconnectTimers, onEndCount, exhausted, lastCall,
                   userCalls>>
    /\ QueueIdle
    /\ Silent
    /\ AppContinues

(* The connection of socket i fails: onerror, lines 127-130, rejects the
   promise, the caller handles the rejection, then onclose, lines 132-141 *)
SocketFails(i) ==
    /\ conns[i].readyState = "CONNECTING"
    /\ LET cs == [conns EXCEPT ![i] =
                    [@ EXCEPT !.readyState = "CLOSED",
                              !.timeout = FALSE,
                              !.pc = IF Pending(i) THEN "done" ELSE conns[i].pc]]
           desired == RecognizingAfterReject(i)
       IN  /\ isRecognizing' = desired
           /\ handleWebSocketClose(desired, cs, EventsOfReject(i))
    /\ returned' = ReturnedOfReject(i)
    /\ handler' = Turn("close", i, AbnormalClosure)
    /\ UNCHANGED <<lastCall, userCalls>>
    /\ QueueIdle
    /\ Silent
    /\ AppContinues

(* Socket i, open or being closed by cleanup(), is closed with a close
   code: onclose, lines 132-141 *)
SocketCloses(i, code) ==
    /\ conns[i].readyState \in {"OPEN", "CLOSING"}
    /\ handleWebSocketClose(isRecognizing,
                            [conns EXCEPT ![i].readyState = "CLOSED"], <<>>)
    /\ handler' = Turn("close", i, code)
    /\ returned' = "none"
    /\ UNCHANGED <<isRecognizing, lastCall, userCalls>>
    /\ QueueIdle
    /\ Silent
    /\ AppContinues

(* The connection timeout of call i, lines 144-148 *)
ConnectionTimeout(i) ==
    /\ conns[i].timeout
    /\ IF websocket # 0 /\ conns[websocket].readyState # "OPEN"
       THEN /\ conns' = [conns EXCEPT ![i] = [@ EXCEPT !.timeout = FALSE,
                                                       !.pc = "done"]]
            /\ isRecognizing' = RecognizingAfterReject(i)
            /\ events' = EventsOfReject(i)
            /\ returned' = ReturnedOfReject(i)
       ELSE /\ conns' = [conns EXCEPT ![i].timeout = FALSE]
            /\ events' = <<>>
            /\ returned' = "none"
            /\ UNCHANGED isRecognizing
    /\ handler' = Turn("timeout", i, 0)
    /\ wire' = <<>>
    /\ UNCHANGED <<websocket, mediaStream, audioContext, processor, capturing,
                   reconnectAttempts, reconnectTimers, onEndCount, exhausted,
                   lastCall, userCalls>>
    /\ QueueIdle
    /\ Silent
    /\ AppContinues

(* The timer of handleWebSocketClose, lines 221-223, fires:
   reconnectWebSocket(), lines 235-237, up to the fetch of the URL *)
ReconnectTimerFires(k) ==
    /\ Len(conns) < MaxConns
    /\ reconnectTimers' = [j \in 1..(Len(reconnectTimers) - 1) |->
                              IF j < k THEN reconnectTimers[j]
                                       ELSE reconnectTimers[j + 1]]
    /\ conns' = Append(conns, NewConn("reconnect"))
    /\ handler' = Turn("timer", 0, reconnectTimers[k])
    /\ returned' = "none"
    /\ events' = <<>>
    /\ wire' = <<>>
    /\ UNCHANGED <<websocket, mediaStream, audioContext, processor, capturing,
                   isRecognizing, reconnectAttempts, onEndCount, exhausted,
                   lastCall, userCalls>>
    /\ QueueIdle
    /\ Silent
    /\ AppContinues

(* startAudioCapture(), lines 257-279: the user refuses the capture of the
   tab to call i, which asks for the microphone *)
TabDenied(i) ==
    /\ conns[i].pc = "audio"
    /\ userCalls < MaxCalls
    /\ userCalls' = userCalls + 1
    /\ conns' = [conns EXCEPT ![i].pc = "microphone"]
    /\ handler' = Turn("tab denied", i, 0)
    /\ returned' = "none"
    /\ events' = <<>>
    /\ wire' = <<>>
    /\ UNCHANGED <<websocket, mediaStream, audioContext, processor, capturing,
                   isRecognizing, reconnectAttempts, reconnectTimers, onEndCount,
                   exhausted, lastCall>>
    /\ QueueIdle
    /\ Silent
    /\ AppContinues

(* startAudioCapture(), lines 281-308: the capture asked for by call i, of
   the tab or of the microphone, is granted; start(), lines 348-352, then
   reports the start *)
CaptureGranted(i) ==
    /\ conns[i].pc \in {"audio", "microphone"}
    /\ conns' = [conns EXCEPT ![i].pc = "done"]
    /\ mediaStream' = i
    /\ audioContext' = i
    /\ processor' = i
    /\ capturing' = capturing \cup {i}
    /\ IF conns[i].caller = "start"
       THEN events' = <<"onStart">> /\ returned' = "true"
       ELSE events' = <<>> /\ returned' = "none"
    /\ handler' = Turn("capture", i, 0)
    /\ wire' = <<>>
    /\ UNCHANGED <<websocket, isRecognizing, reconnectAttempts, reconnectTimers,
                   onEndCount, exhausted, lastCall, userCalls>>
    /\ QueueIdle
    /\ Silent
    /\ AppContinues

(* startAudioCapture(), lines 270-279 and 310-312: the microphone is refused
   to call i as the tab was, and startAudioCapture() throws; start(), lines
   353-357, fails; reconnectWebSocket(), lines 241-246, invokes onError *)
CaptureDenied(i) ==
    /\ conns[i].pc = "microphone"
    /\ conns' = [conns EXCEPT ![i].pc = "done"]
    /\ IF conns[i].caller = "start"
       THEN isRecognizing' = FALSE /\ returned' = "error"
       ELSE UNCHANGED isRecognizing /\ returned' = "none"
    /\ handler' = Turn("capture denied", i, 0)
    /\ events' = IF conns[i].caller = "reconnect" THEN <<"onError">> ELSE <<>>
    /\ wire' = <<>>
    /\ UNCHANGED <<websocket, mediaStream, audioContext, processor, capturing,
                   reconnectAttempts, reconnectTimers, onEndCount, exhausted,
                   lastCall, userCalls>>
    /\ QueueIdle
    /\ Silent
    /\ AppContinues

(* onaudioprocess, lines 296-306: the processor of capture c is handed a
   buffer of samples *)
AudioProcess(c) ==
    /\ wire' = IF SocketReady
               THEN <<[socket |-> websocket, data |-> "audio"]>>
               ELSE <<>>
    /\ handler' = Turn("audio", c, 0)
    /\ returned' = "none"
    /\ events' = <<>>
    /\ UNCHANGED <<conns, websocket, mediaStream, audioContext, processor,
                   capturing, isRecognizing, reconnectAttempts, reconnectTimers,
                   onEndCount, exhausted, lastCall, userCalls>>
    /\ QueueIdle
    /\ Silent
    /\ AppContinues

(* A session alone: no translation is ever submitted *)
SessionInit ==
    /\ Constructed
    /\ SessionConstructed
    /\ CoordinatorConstructed
    /\ EncoderConstructed
    /\ toggle = FALSE
    /\ budget = [req |-> 0, retry |-> 0, fatal |-> 0, foreign |-> 0]

SessionNext ==
    \/ Start
    \/ Stop
    \/ Reset
    \/ \E i \in DOMAIN conns : UrlArrives(i)
    \/ \E i \in DOMAIN conns : UrlFails(i)
    \/ \E i \in DOMAIN conns : SocketOpens(i)
    \/ \E i \in DOMAIN conns : SocketFails(i)
    \/ \E i \in DOMAIN conns, code \in CloseCodes : SocketCloses(i, code)
    \/ \E i \in DOMAIN conns : ConnectionTimeout(i)
    \/ \E k \in DOMAIN reconnectTimers : ReconnectTimerFires(k)
    \/ \E i \in DOMAIN conns : TabDenied(i)
    \/ \E i \in DOMAIN conns : CaptureGranted(i)
    \/ \E i \in DOMAIN conns : CaptureDenied(i)
    \/ \E c \in capturing : AudioProcess(c)

SessionSpec == SessionInit /\ [][SessionNext]_vars

----------------------------------------------------------------------------
(* Vocabulary of the properties of the session *)

(* Sockets that are connecting or open *)
LiveSockets == {i \in DOMAIN conns : conns[i].readyState \in Live}

(* Calls of connectWebSocket() that still await the URL or the connection *)
Connecting == {i \in DOMAIN conns : conns[i].pc = "url" \/ conns[i].readyState = "CONNECTING"}

(* The audio frames of the last turn *)
Frames == {k \in DOMAIN wire : wire[k].data = "audio"}

(* No capture is held: processor, audio context and media tracks released *)
AudioReleased == mediaStream = 0 /\ audioContext = 0 /\ processor = 0 /\ capturing = {}

----------------------------------------------------------------------------
(* Properties of the session *)

(* C11: an audio frame is sent only by the turn of onaudioprocess that was
   handed it, only on this.websocket and only while that socket is OPEN; a
   frame handed over while the socket is absent, connecting, closing or
   closed is dropped: that turn sends nothing, and no other turn ever
   sends audio. *)
C11_FramesOnlyWhenOpen ==
    /\ \A k \in Frames :
          /\ handler.name = "audio"
          /\ wire[k].socket = websocket
          /\ conns[wire[k].socket].readyState = "OPEN"
    /\ handler.name = "audio" =>
          IF websocket # 0 /\ conns[websocket].readyState = "OPEN"
          THEN Len(wire) = 1 /\ Frames = {1}
          ELSE wire = <<>>

(* C11, its case: a frame handed over in a reconnect gap, while the new
   socket is still connecting, is dropped *)
C11_Witness ==
    /\ handler.name = "audio"
    /\ wire = <<>>
    /\ isRecognizing
    /\ reconnectAttempts > 0
    /\ websocket # 0
    /\ conns[websocket].readyState = "CONNECTING"

(* C12: whatever the calls of start(), stop() and reset(), the socket
   events and the timers, at most one socket of the session is connecting
   or open: no earlier socket is still live once a new one is created. *)
C12_SingleLiveSocket ==
    Cardinality(LiveSockets) <= 1

(* C13: a call of start() made while isRecognizing is true fails at once
   with the already-running error and changes nothing: no call of
   connectWebSocket() is added, no socket and no capture changes, no
   callback is invoked and nothing is sent. *)
C13_StartWhileRunningFails ==
    [][(handler'.name = "start" /\ isRecognizing) =>
          /\ returned' = "already running"
          /\ events' = <<>>
          /\ wire' = <<>>
          /\ UNCHANGED <<conns, websocket, mediaStream, audioContext, processor,
                         capturing, isRecognizing, reconnectAttempts,
                         reconnectTimers>>]_vars

(* C13, its case: start() was refused while a socket of the session was
   connecting or open *)
C13_Witness ==
    /\ handler.name = "start"
    /\ returned = "already running"
    /\ isRecognizing
    /\ websocket # 0
    /\ conns[websocket].readyState \in Live

(* C14: a close event handled while recognition is still desired and
   reconnectAttempts < 3 counts one more attempt and schedules exactly one
   reconnection timer, of 1000 ms times the number of that attempt: 1000,
   2000, 3000 ms for attempts 1, 2, 3. *)
C14_OneTimerPerClose ==
    [][(handler'.name = "close" /\ isRecognizing' /\ reconnectAttempts < 3) =>
          /\ reconnectAttempts' = reconnectAttempts + 1
          /\ reconnectAttempts' \in 1..3
          /\ reconnectTimers' = Append(reconnectTimers, 1000 * reconnectAttempts')]_vars

(* C14, its case: the third close in a row has scheduled the third attempt,
   3000 ms later *)
C14_Witness ==
    /\ handler.name = "close"
    /\ isRecognizing
    /\ reconnectAttempts = 3
    /\ reconnectTimers = <<3000>>

(* C15: once a close has found the three attempts used up, the session is
   Closed: audio released, no socket, no reconnection scheduled; and onEnd
   has been invoked exactly once since the session was started. *)
C15_ExhaustedEndsOnce ==
    exhausted =>
        /\ AudioReleased
        /\ websocket = 0
        /\ reconnectTimers = <<>>
        /\ onEndCount = 1

(* C16: a close event with the normal close code, handled while the
   session is running, schedules no reconnection: it leaves the session
   Closed (no socket, audio released) and invokes onEnd. *)
C16_NormalCloseEnds ==
    [][(handler'.name = "close" /\ handler'.code = 1000 /\ isRecognizing') =>
          /\ reconnectTimers' = reconnectTimers
          /\ websocket' = 0
          /\ AudioReleased'
          /\ \E k \in DOMAIN events' : events'[k] = "onEnd"]_vars

(* C17: the session is never stuck after a close handled while recognition
   is desired: as long as recognition is desired and a reconnection has
   been counted, either a reconnection timer is pending, or a connection
   attempt is under way, or the socket of the session is open, or the
   session has been closed (no socket, audio released) with onEnd invoked. *)
C17_NeverStuck ==
    (isRecognizing /\ reconnectAttempts > 0) =>
        \/ reconnectTimers # <<>>
        \/ Connecting # {}
        \/ (websocket # 0 /\ conns[websocket].readyState = "OPEN")
        \/ (websocket = 0 /\ AudioReleased /\ onEndCount > 0)

(* C18: after an effective stop() and until the next call of start(), the
   session begins no connection attempt (no call of connectWebSocket(),
   hence no socket of a new attempt): a reconnection timer scheduled
   before the stop() does nothing. *)
C18_StopCancelsReconnect ==
    [][(lastCall = "stop" /\ handler'.name # "start") =>
          Len(conns') = Len(conns)]_vars

(* C19: an effective stop(), whatever the state of the socket, leaves the
   session released: the Terminate message is sent if and only if the
   socket was OPEN, the socket the session held is no longer connecting or
   open, this.websocket is null, processor, audio context and media tracks
   are released, and isRecognizing is false. *)
C19_StopReleases ==
    [][(handler'.name = "stop" /\ isRecognizing) =>
          /\ (\E k \in DOMAIN wire' : wire'[k].data = "Terminate")
                <=> (websocket # 0 /\ conns[websocket].readyState = "OPEN")
          /\ websocket # 0 => conns'[websocket].readyState \notin Live
          /\ websocket' = 0
          /\ AudioReleased'
          /\ ~isRecognizing']_vars

(* The session ended when a close found the reconnect attempts used up:
   no socket, no timer, no attempt under way, audio released *)
EndedByExhaustion ==
    /\ exhausted
    /\ websocket = 0
    /\ reconnectTimers = <<>>
    /\ Connecting = {}
    /\ AudioReleased

(* C20: stop() called on a session that is Idle or already Closed (never
   started, already stopped, or ended by exhausted reconnects) returns
   false, changes no state of the session, invokes no callback and sends
   nothing. *)
C20_StopWhenClosedIsNoop ==
    [][(handler'.name = "stop" /\ (~isRecognizing \/ EndedByExhaustion)) =>
          /\ returned' = "false"
          /\ events' = <<>>
          /\ wire' = <<>>
          /\ UNCHANGED <<conns, websocket, mediaStream, audioContext, processor,
                         capturing, isRecognizing, reconnectAttempts,
                         reconnectTimers>>]_vars

(* C21: the turn in which start() fails leaves the session Idle with its
   partial resources released: isRecognizing is false, no socket of the
   session is connecting or open, no audio resource is held, and neither
   onStart nor onEnd is invoked for the failed attempt. *)
C21_FailedStartReleases ==
    [][returned' = "error" =>
          /\ ~isRecognizing'
          /\ LiveSockets' = {}
          /\ AudioReleased'
          /\ \A k \in DOMAIN events' : events'[k] \notin {"onStart", "onEnd"}]_vars

(* C22: the consumer is told of the end of a session once: between one
   start() that was let in and the next, onEnd is invoked at most once,
   also when stop() on an open socket is followed by the close event of
   that socket. *)
C22_EndNotifiedOnce ==
    onEndCount <= 1

(* C23: a session ended by exhausted reconnects is no longer running:
   isRecognizing is false, so that the next start() is let in. *)
C23_ExhaustedIsNotRunning ==
    EndedByExhaustion => ~isRecognizing

(* C24: the audio pipeline is not restarted: while a media stream is held,
   no turn other than one that releases it (stop(), reset(), the end of
   the session on a close) acquires another capture or replaces the media
   stream, the audio context or the processor; a reconnection reuses them. *)
C24_AudioNotRestarted ==
    [][(mediaStream # 0 /\ handler'.name \notin {"stop", "reset", "close"}) =>
          /\ mediaStream' = mediaStream
          /\ audioContext' = audioContext
          /\ processor' = processor
          /\ capturing' = capturing]_vars

(* C25, as stated: reconnectAttempts is set to 0 by every open of a socket,
   is incremented by 1 by every abnormal close handled while recognition
   is desired, and stays within 0..3. *)
C25_CountsEveryClose ==
    [][/\ handler'.name = "open" => reconnectAttempts' = 0
       /\ (handler'.name = "close" /\ handler'.code = 1006 /\ isRecognizing') =>
              reconnectAttempts' = reconnectAttempts + 1
       /\ reconnectAttempts' \in 0..3]_vars

(* C25, amended: reconnectAttempts is set to 0 by every open of a socket,
   is incremented by 1 by every abnormal close handled while recognition
   is desired and the counter is below 3, is left at 3 by a close that
   finds it at 3, and stays within 0..3. *)
C25_CountsCloseBelowLimit ==
    [][/\ handler'.name = "open" => reconnectAttempts' = 0
       /\ (handler'.name = "close" /\ handler'.code = 1006 /\ isRecognizing') =>
              reconnectAttempts' = IF reconnectAttempts < 3
                                   THEN reconnectAttempts + 1
                                   ELSE reconnectAttempts
       /\ reconnectAttempts' \in 0..3]_vars

(* C25, its case: an abnormal close, handled while recognition is desired,
   found the counter at 3 and left it there *)
C25_Witness ==
    /\ handler.name = "close"
    /\ handler.code = 1006
    /\ isRecognizing
    /\ exhausted
    /\ reconnectAttempts = 3
    /\ reconnectTimers = <<>>

----------------------------------------------------------------------------
(* The pipeline: the messages of the recognition service, handled by the    *)
(* session (handleWebSocketMessage) and by the page (src/assets/js/app.js,  *)
(* src/assets/js/modules/realtimeTranslation.js), which submits the final   *)
(* transcripts to the queue.  A text is the sequence of its characters.     *)

(* Final results the page may come to show *)
MaxLines == 2

(* Failures, none of them transient, that the translation service may
   answer in PipelineSpec *)
PipeFatal == 1

Transcripts == {<<>>, <<" ">>, <<"a">>, <<" ", "a", " ">>, <<"b">>}

(* What JSON.parse() makes of a message: nothing, or an object with a type
   and, read as they are tested, the fields of a turn *)
Unparsable ==
    [parses |-> FALSE, type |-> "unparsable", transcript |-> <<>>,
     turn_is_formatted |-> FALSE, end_of_turn |-> FALSE]

Parsed(type, transcript, formatted, eot) ==
    [parses |-> TRUE, type |-> type, transcript |-> transcript,
     turn_is_formatted |-> formatted, end_of_turn |-> eot]

Messages ==
    {Unparsable}
    \cup {Parsed(type, <<>>, FALSE, FALSE) : type \in {"Begin", "Termination"}}
    \cup {Parsed("Other", <<"a">>, FALSE, TRUE)}
    \cup {Parsed("Turn", t, FALSE, TRUE) : t \in Transcripts}
    \cup {Parsed("Turn", <<"a">>, f, e) : f \in BOOLEAN, e \in BOOLEAN}

(* String.prototype.trim(), as used in app.js lines 241-242 *)
RECURSIVE TrimStart(_)
TrimStart(s) == IF s # <<>> /\ Head(s) = " " THEN TrimStart(Tail(s)) ELSE s

RECURSIVE TrimEnd(_)
TrimEnd(s) ==
    IF s # <<>> /\ s[Len(s)] = " " THEN TrimEnd(SubSeq(s, 1, Len(s) - 1)) ELSE s

trim(s) == TrimEnd(TrimStart(s))

(* a classification that takes a turn for final only when both flags are set *)
IsFinalTurn_BothFlags(data) == data.turn_is_formatted /\ data.end_of_turn

(* handleWebSocketMessage, lines 171-174 *)
IsFinalTurn(data) == data.turn_is_formatted \/ data.end_of_turn

(* a handler that takes every message with a transcript for a turn *)
CarriesTurn_AnyType(data) == data.parses /\ data.transcript # <<>>

(* handleWebSocketMessage, lines 160-170: the message parses, is a Turn and
   has a transcript *)
CarriesTurn(data) == data.parses /\ data.type = "Turn" /\ data.transcript # <<>>

(* handleWebSocketMessage, lines 158-211: the objects handed to onResult,
   without their confidence *)
handleWebSocketMessage(data) ==
    IF CarriesTurn(data)
    THEN IF IsFinalTurn(data)
         THEN <<[finalTranscript |-> data.transcript, interimTranscript |-> <<>>,
                 lastFinalText |-> lastFinalText]>>
         ELSE <<[finalTranscript |-> <<>>, interimTranscript |-> data.transcript,
                 lastFinalText |-> lastFinalText]>>
    ELSE <<>>

(* a page that shows every non-empty final result *)
IsNewFinal_NoComparison(trimmedText, lastTrimmedText) == trimmedText # <<>>

(* onRecognitionResult, app.js line 245 *)
IsNewFinal(trimmedText, lastTrimmedText) ==
    trimmedText # <<>> /\ trimmedText # lastTrimmedText

(* onRecognitionResult, app.js lines 240-245: the result is shown as a new
   final result *)
Accepted(rs) ==
    /\ rs # <<>>
    /\ rs[1].finalTranscript # <<>>
    /\ IsNewFinal(trim(rs[1].finalTranscript), trim(rs[1].lastFinalText))

(* a translateNewText() without its test of isEnabled and hasError *)
Submits_ToggleOnly == toggle

(* translateNewText, realtimeTranslation.js lines 33-35, called when the
   toggle is checked, app.js line 251 *)
Submits == toggle /\ isEnabled /\ ~hasError

(* onmessage, line 124, of socket i: handleWebSocketMessage, lines 158-211,
   then onRecognitionResult, app.js lines 232-257, translateNewText,
   realtimeTranslation.js lines 32-45, translateText, part_000 lines 19-32,
   and translate() of the queue *)
Message(i, data) ==
    /\ conns[i].readyState = "OPEN"
    /\ LET rs == handleWebSocketMessage(data)
           trimmedText == trim(rs[1].finalTranscript)
           resultId == Len(lines) + 1
       IN  /\ received' = data
           /\ results' = rs
           /\ events' = IF rs = <<>> THEN <<>> ELSE <<"onResult">>
           /\ lastFinal' = IF rs # <<>> /\ rs[1].finalTranscript # <<>>
                           THEN [seen |-> TRUE, text |-> trimmedText]
                           ELSE lastFinal
           /\ IF Accepted(rs)
              THEN /\ Len(lines) < MaxLines
                   /\ lastFinalText' = trimmedText
                   /\ IF Submits
                      THEN /\ lines' = Append(lines, [text |-> trimmedText,
                                                      translation |-> "translating"])
                           /\ awaiting' = awaiting \cup
                                  {[req |-> Len(requests) + 1, resultId |-> resultId]}
                           /\ translate(<<trim(trimmedText)>>, DefaultLang, "null")
                      ELSE /\ lines' = Append(lines, [text |-> trimmedText,
                                                      translation |-> "none"])
                           /\ UNCHANGED awaiting
                           /\ QueueIdle
              ELSE /\ UNCHANGED <<lastFinalText, lines, awaiting>>
                   /\ QueueIdle
    /\ handler' = Turn("message", i, 0)
    /\ returned' = "none"
    /\ wire' = <<>>
    /\ delivered' = <<>>
    /\ UNCHANGED <<conns, websocket, mediaStream, audioContext, processor, capturing,
                   isRecognizing, reconnectAttempts, reconnectTimers, onEndCount,
                   exhausted, lastCall, userCalls, delays>>
    /\ UNCHANGED <<toggle, isEnabled, hasError>>
    /\ EncoderIdle

(* The user flips the toggle: toggleRealtimeTranslation, app.js lines 168-180 *)
Toggle ==
    /\ userCalls < MaxCalls
    /\ userCalls' = userCalls + 1
    /\ toggle' = ~toggle
    /\ IF isRecognizing
       THEN setEnabled(toggle')
       ELSE UNCHANGED <<isEnabled, hasError>>
    /\ handler' = Turn("toggle", 0, 0)
    /\ returned' = "none"
    /\ events' = <<>>
    /\ wire' = <<>>
    /\ delivered' = <<>>
    /\ QueueIdle
    /\ UNCHANGED <<conns, websocket, mediaStream, audioContext, processor, capturing,
                   isRecognizing, reconnectAttempts, reconnectTimers, onEndCount,
                   exhausted, lastCall>>
    /\ UNCHANGED <<lines, awaiting, lastFinal>>
    /\ Silent

(* The page after its construction; the toggle is as the document has it *)
PipelineInit ==
    /\ Constructed
    /\ SessionConstructed
    /\ CoordinatorConstructed
    /\ EncoderConstructed
    /\ toggle \in BOOLEAN
    /\ budget = [req |-> MaxLines, retry |-> 0, fatal |-> PipeFatal, foreign |-> 0]

(* The pipeline over a transport that connects and stays up *)
PipelineNext ==
    \/ Start
    \/ Stop
    \/ Reset
    \/ Toggle
    \/ \E i \in DOMAIN conns : UrlArrives(i)
    \/ \E i \in DOMAIN conns : SocketOpens(i)
    \/ \E i \in DOMAIN conns : CaptureGranted(i)
    \/ \E i \in DOMAIN conns, data \in Messages : Message(i, data)
    \/ \E w \in 1..NWorkers : DispatchReturns(w)
    \/ \E w \in 1..NWorkers : DispatchThrows(w)
    \/ \E w \in 1..NWorkers : TimerFires(w)

PipelineSpec == PipelineInit /\ [][PipelineNext]_vars

----------------------------------------------------------------------------
(* Vocabulary of the pipeline claims *)

(* The last turn handled a message *)
MessageTurn == handler.name = "message"

(* The last turn announced a final transcript *)
FinalEvent == results # <<>> /\ results[1].finalTranscript # <<>>

(* The last turn announced an interim transcript *)
InterimEvent == results # <<>> /\ results[1].interimTranscript # <<>>

(* The message is neither a Begin, a Turn nor a Termination, or is not JSON *)
Unrecognized(data) == ~data.parses \/ data.type \notin {"Begin", "Turn", "Termination"}

----------------------------------------------------------------------------
(* C29: a Turn message with a non-empty transcript is announced as one      *)
(* event in the turn it arrives in, Final when turn_is_formatted or         *)
(* end_of_turn is set and Interim otherwise; a Begin, a Termination and a   *)
(* Turn with an empty transcript announce nothing, and nothing is announced *)
(* in a turn that handles no message.                                       *)
C29_ClassifiedByFlag ==
    /\ ~MessageTurn => results = <<>>
    /\ MessageTurn /\ received.parses /\ received.type = "Turn"
                   /\ received.transcript # <<>> =>
          /\ Len(results) = 1
          /\ IF received.turn_is_formatted \/ received.end_of_turn
             THEN /\ results[1].finalTranscript = received.transcript
                  /\ results[1].interimTranscript = <<>>
             ELSE /\ results[1].interimTranscript = received.transcript
                  /\ results[1].finalTranscript = <<>>
    /\ MessageTurn /\ received.parses /\ received.type = "Turn"
                   /\ received.transcript = <<>> => results = <<>>
    /\ MessageTurn /\ received.parses
                   /\ received.type \in {"Begin", "Termination"} => results = <<>>

(* A turn with only end_of_turn set was announced as Final *)
C29_Witness ==
    /\ MessageTurn
    /\ received.type = "Turn"
    /\ received.end_of_turn /\ ~received.turn_is_formatted
    /\ FinalEvent
    /\ results[1].finalTranscript = received.transcript

(* C30: a message of a type that is not recognized, or one that does not    *)
(* parse, announces nothing and leaves isRecognizing, the socket, the       *)
(* reconnection counter, lastFinalText and the audio resources as they      *)
(* were; the socket it came on stays open for the next message.             *)
C30_UnrecognizedIgnored ==
    [][handler'.name = "message" /\ Unrecognized(received') =>
          /\ results' = <<>>
          /\ events' = <<>>
          /\ UNCHANGED <<isRecognizing, websocket, conns, reconnectAttempts,
                         reconnectTimers, lastFinalText, mediaStream, audioContext,
                         processor, capturing, lines, requests>>
          /\ conns'[handler'.conn].readyState = "OPEN"]_vars

(* A message of another type that carried a transcript was ignored while
   the session was recognizing *)
C30_Witness ==
    /\ MessageTurn
    /\ received.type = "Other"
    /\ received.transcript # <<>>
    /\ results = <<>>
    /\ isRecognizing
    /\ websocket = handler.conn

(* Translation is switched on: the toggle is checked and the module enabled *)
TranslationOn == toggle /\ isEnabled

(* C26: a Final event whose trimmed text equals the trimmed text of the     *)
(* Final event before it (since the page was last cleared) is neither       *)
(* shown as a new line nor submitted for translation, so that two such      *)
(* events received while translation is on make one submission.             *)
C26_RepeatedFinalSuppressed ==
    [][/\ handler'.name = "message"
       /\ FinalEvent'
       /\ lastFinal.seen
       /\ trim(results'[1].finalTranscript) = lastFinal.text
       => /\ lines' = lines
          /\ requests' = requests
          /\ awaiting' = awaiting]_vars

(* The second of two Final events with the same trimmed text, written
   differently, arrived while translation was on: one line, one request *)
C26_Witness ==
    /\ MessageTurn
    /\ FinalEvent
    /\ TranslationOn
    /\ Len(lines) = 1
    /\ Len(requests) = 1
    /\ lines[1].text = trim(results[1].finalTranscript)
    /\ lines[1].text # results[1].finalTranscript
    /\ results[1].lastFinalText = lines[1].text
    /\ requests[1].text = lines[1].text

(* C27: after a translation request failed with an error that is not       *)
(* retried, every later Final transcript that is shown as a new line while  *)
(* the toggle is checked is still submitted for translation.                *)
C27_LaterFinalsSubmitted ==
    [][/\ handler'.name = "message"
       /\ Len(lines') = Len(lines) + 1
       /\ toggle
       /\ isEnabled \/ hasError
       => Len(requests') = Len(requests) + 1]_vars

(* A request that the page awaits is in the pending queue or in a batch in
   flight until it is settled *)
Queued(r) ==
    \/ \E k \in DOMAIN pendingQueue : pendingQueue[k].id = r
    \/ \E w \in 1..NWorkers :
          /\ workers[w].pc = "fetch"
          /\ \E k \in DOMAIN workers[w].batch : workers[w].batch[k].id = r

(* C28: stop() leaves the queue and the suspended calls of                  *)
(* translateNewText() as they were; a request the page awaits stays in the  *)
(* queue or in flight until it is settled; and when it is resolved the      *)
(* translation is handed to updateTranslationResult() under the result id   *)
(* of its line, and shown on that line, whether or not recognition has      *)
(* been stopped meanwhile.                                                  *)
C28_StopKeepsTranslations ==
    [][/\ handler'.name = "stop" =>
             UNCHANGED <<requests, pendingQueue, isProcessing, workers, outcome,
                         awaiting>>
       /\ \A a \in awaiting' : outcome'[a.req] = "pending" /\ Queued(a.req)'
       /\ \A a \in awaiting :
             outcome'[a.req] = "resolved" =>
                /\ \E k \in DOMAIN delivered' :
                      /\ delivered'[k].resultId = a.resultId
                      /\ delivered'[k].translatedText =
                             ServerTranslation(lines[a.resultId].text,
                                               DefaultLang).text
                /\ lines[a.resultId].translation = "translating" =>
                      lines'[a.resultId].translation = "translated"]_vars

(* The translation of a line arrived, and was shown, after stop() *)
C28_Witness ==
    /\ delivered # <<>>
    /\ lines[delivered[1].resultId].translation = "translated"
    /\ ~isRecognizing
    /\ ~isEnabled
    /\ lastCall = "stop"

----------------------------------------------------------------------------
(* The encoder: convertFloat32ToInt16 (assemblyAISpeechRecognition_v2.js,   *)
(* lines 318-329).  A sample is the number n / SampleUnit, held as n; a     *)
(* buffer of bytes is the sequence of its bytes, each in 0..255.            *)

(* Samples in a buffer, and samples converted in a run *)
MaxSamples == 2
MaxSampleCount == 4

SampleUnit == 4

(* -1.5, -1, -0.75, 0, 0.25, 1 and 1.5 *)
Samples == {-6, -4, -3, 0, 1, 4, 6}

InputBuffers == UNION {[1..n -> Samples] : n \in 0..MaxSamples}

(* Math.max(-1, Math.min(1, x)), line 324 *)
Clamp(n) ==
    LET least == IF n < SampleUnit THEN n ELSE SampleUnit
    IN  IF least > -SampleUnit THEN least ELSE -SampleUnit

(* a scaling that multiplies every sample by 0x8000 *)
Scaled_Symmetric(n) == n * 32768

(* line 325: sample < 0 ? sample * 0x8000 : sample * 0x7fff, times SampleUnit *)
Scaled(n) == IF n < 0 THEN n * 32768 ELSE n * 32767

(* DataView.setInt16(offset, value, true): the value loses its fraction,
   is taken modulo 2^16 and is written low byte first *)
setInt16(scaled) ==
    LET whole == IF scaled >= 0 THEN scaled \div SampleUnit
                 ELSE -((-scaled) \div SampleUnit)
        int16 == whole % 65536
    IN  <<int16 % 256, int16 \div 256>>

(* a buffer of one byte for each sample *)
ByteLength_OnePerSample(length) == length

(* line 319: new ArrayBuffer(float32Array.length * 2) *)
ByteLength(length) == length * 2

(* convertFloat32ToInt16, lines 318-329: the bytes of the buffer returned *)
convertFloat32ToInt16(float32Array) ==
    [k \in 1..ByteLength(Len(float32Array)) |->
        setInt16(Scaled(Clamp(float32Array[(k + 1) \div 2])))[2 - (k % 2)]]

(* A call of convertFloat32ToInt16 *)
Convert(float32Array) ==
    /\ sampleCount + Len(float32Array) <= MaxSampleCount
    /\ inputBuffer' = float32Array
    /\ pcm16Buffer' = convertFloat32ToInt16(float32Array)
    /\ sampleCount' = sampleCount + Len(float32Array)
    /\ byteCount' = byteCount + Len(pcm16Buffer')
    /\ UNCHANGED <<queueVars, sessionVars, coordinatorVars>>

EncoderInit ==
    /\ Constructed
    /\ SessionConstructed
    /\ CoordinatorConstructed
    /\ EncoderConstructed
    /\ toggle = FALSE
    /\ budget = [req |-> 0, retry |-> 0, fatal |-> 0, foreign |-> 0]

EncoderNext == \E float32Array \in InputBuffers : Convert(float32Array)

EncoderSpec == EncoderInit /\ [][EncoderNext]_vars

(* The 16-bit value, as a signed number, written at sample i of the buffer *)
Int16At(i) ==
    LET unsigned == pcm16Buffer[2 * i - 1] + 256 * pcm16Buffer[2 * i]
    IN  IF unsigned >= 32768 THEN unsigned - 65536 ELSE unsigned

(* C31: the buffer returned for n samples has 2 * n bytes, and the bytes    *)
(* returned over all the buffers converted so far are twice the samples     *)
(* handed in.                                                               *)
C31_TwoBytesPerSample ==
    /\ Len(pcm16Buffer) = 2 * Len(inputBuffer)
    /\ byteCount = 2 * sampleCount

(* Two buffers were converted, the second of two samples *)
C31_Witness ==
    /\ Len(inputBuffer) = 2
    /\ sampleCount = 3
    /\ byteCount = 6

(* C32: every sample is written little-endian as a signed 16-bit number:    *)
(* 1 and everything above as 0x7FFF, -1 and everything below as 0x8000, 0   *)
(* as 0x0000, a negative sample in between as the sample times 32768 and a  *)
(* positive one as the sample times 32767, without its fraction.            *)
C32_ClampedAndScaled ==
    Len(pcm16Buffer) = 2 * Len(inputBuffer) =>
    \A i \in DOMAIN inputBuffer :
        LET n == inputBuffer[i]
            low == pcm16Buffer[2 * i - 1]
            high == pcm16Buffer[2 * i]
            value == Int16At(i)
        IN  /\ low \in 0..255 /\ high \in 0..255
            /\ n >= SampleUnit => low = 255 /\ high = 127
            /\ n <= -SampleUnit => low = 0 /\ high = 128
            /\ n = 0 => low = 0 /\ high = 0
            /\ n < 0 /\ n > -SampleUnit => value * SampleUnit = n * 32768
            /\ n > 0 /\ n < SampleUnit =>
                  /\ value * SampleUnit <= n * 32767
                  /\ (value + 1) * SampleUnit > n * 32767

(* A buffer with a sample above 1 next to a sample of -1 was converted *)
C32_Witness ==
    /\ Len(inputBuffer) = 2
    /\ inputBuffer[1] > SampleUnit
    /\ inputBuffer[2] = -SampleUnit
    /\ pcm16Buffer = <<255, 127, 0, 128>>

----------------------------------------------------------------------------
(* C33: the microphone is requested only when the capture of the tab was    *)
(* refused; and when the microphone is refused too, the acquisition fails   *)
(* with an error and the session holds no media stream, no audio context    *)
(* and no processor.                                                        *)
C33_TabThenMicrophone ==
    [][/\ \A i \in DOMAIN conns' :
             conns'[i].pc = "microphone" /\ (i \notin DOMAIN conns \/ conns[i].pc # "microphone")
                => handler' = Turn("tab denied", i, 0) /\ conns[i].pc = "audio"
       /\ handler'.name = "capture denied" =>
             /\ returned' = "error" \/ events' = <<"onError">>
             /\ mediaStream' = 0
             /\ audioContext' = 0
             /\ processor' = 0]_vars

(* C34: the delays of the reconnections scheduled one after the other       *)
(* since the last successful open grow exponentially: each one is larger    *)
(* than the one before, by the same factor.                                 *)
C34_ExponentialBackoff ==
    \A k \in DOMAIN delays :
        k + 2 \in DOMAIN delays =>
            /\ delays[k + 1] > delays[k]
            /\ delays[k + 1] * delays[k + 1] = delays[k] * delays[k + 2]

(* The close event of this turn comes from a socket that is not the         *)
(* session's current one, a newer call of connectWebSocket() having been    *)
(* made since it was created                                                *)
StaleClose ==
    /\ handler'.name = "close"
    /\ websocket # handler'.conn
    /\ \E j \in DOMAIN conns : j > handler'.conn

(* C38: a close event from a socket that is no longer the session's current *)
(* socket has no effect: the current socket reference, reconnectAttempts,   *)
(* the scheduled reconnections and the audio resources are unchanged and no *)
(* onEnd is emitted.                                                        *)
C38_StaleCloseIgnored ==
    [][StaleClose =>
          /\ websocket' = websocket
          /\ reconnectAttempts' = reconnectAttempts
          /\ reconnectTimers' = reconnectTimers
          /\ UNCHANGED <<mediaStream, audioContext, processor, capturing>>
          /\ \A k \in DOMAIN events' : events'[k] # "onEnd"]_vars

----------------------------------------------------------------------------
(* DeeplClient called with arrays of several texts and with source          *)
(* languages                                                                *)

InputsReq == 3
InputsRetry == 1
InputsFatal == 1

(* The arrays translate() is called with: one text, or two texts *)
InputArrays == {<<Len(requests) + 1>>, <<Len(requests) + 1, -(Len(requests) + 1)>>}

(* source_lang of translate(): absent ("null", the default of line 18) or given *)
InputSourceLangs == {"null", "EN"}

InputsInit ==
    /\ Constructed
    /\ SessionConstructed
    /\ CoordinatorConstructed
    /\ EncoderConstructed
    /\ toggle = FALSE
    /\ budget = [req |-> InputsReq, retry |-> InputsRetry, fatal |-> InputsFatal,
                 foreign |-> InputsReq]

InputsNext ==
    \/ \E text \in InputArrays, tl \in TargetLangs, sl \in InputSourceLangs :
          Translate(text, tl, sl)
    \/ \E w \in 1..NWorkers : DispatchReturns(w)
    \/ \E w \in 1..NWorkers : DispatchThrows(w)
    \/ \E w \in 1..NWorkers : TimerFires(w)

InputsSpec == InputsInit /\ [][InputsNext]_vars

(* C35: translate(text, ...) translates the array of texts it is given:     *)
(* every element of the array of a dispatched request is in the body of     *)
(* the call, and a request is resolved with one translation per element of  *)
(* its array.                                                               *)
C35_TranslatesTheArray ==
    /\ \A w \in InFlight :
          \A i \in DOMAIN workers[w].batch :
              LET texts == given[workers[w].batch[i].id]
                  body == RequestBody(workers[w].batch)
              IN  \A j \in DOMAIN texts :
                      \E k \in DOMAIN body.text : body.text[k] = texts[j]
    /\ \A k \in DOMAIN settles :
          settles[k].kind = "resolve"
              => Len(settles[k].value.translations) = Len(given[settles[k].req])

(* C39: every request of a dispatched batch is sent with the source         *)
(* language it was submitted with: the source_lang of the call is the       *)
(* source_lang of each request of the batch.                                *)
C39_OwnSourceLang ==
    [][sent' # NoBody =>
        \E w \in 1..NWorkers :
            /\ workers'[w].pc = "fetch"
            /\ RequestBody(workers'[w].batch) = sent'
            /\ \A i \in DOMAIN workers'[w].batch :
                  workers'[w].batch[i].source_lang = sent'.source_lang]_vars

(* How often request r is in the batches of the workers, waiting or in      *)
(* flight, of the state that follows                                        *)
Dispatched(r) ==
    Cardinality({p \in (1..NWorkers) \X (1..Len(requests')) :
                    /\ workers'[p[1]].pc = "fetch"
                    /\ p[2] \in DOMAIN workers'[p[1]].batch
                    /\ workers'[p[1]].batch[p[2]].id = r})

(* C36: while every dispatch succeeds, a drain cycle that follows no new    *)
(* submission does not make the pending list longer, and every request is   *)
(* dispatched at most once: it is at most once among the requests pending,  *)
(* in flight and handed a result.                                           *)
C36_DrainsEachOnce ==
    [][(retries' = 0 /\ fatals' = 0) =>
          /\ requests' = requests => Len(pendingQueue') <= Len(pendingQueue)
          /\ \A r \in DOMAIN requests' :
                calls'[r] + Dispatched(r)
                  + Cardinality({i \in DOMAIN pendingQueue' : pendingQueue'[i].id = r})
                      <= 1]_vars

(* C37: no wake-up is lost.  Between two turns a request is pending only    *)
(* while the worker loop runs (isProcessing is true and an activation of    *)
(* the loop awaits a dispatch or a timer), so that isProcessing false means *)
(* an empty pending list.  A request appended by translate() is picked up   *)
(* by a drain cycle: a call made while no loop runs starts one, which       *)
(* dispatches the request in the same turn, and the loop that comes back    *)
(* from its timer with requests pending dispatches the head of the list.    *)
C37_NoLostWakeup ==
    /\ [](/\ ~isProcessing => pendingQueue = <<>>
          /\ pendingQueue # <<>> => Active # {}
          /\ isProcessing => Active # {})
    /\ [][/\ (Len(requests') > Len(requests) /\ Active = {})
                => \E w \in 1..NWorkers :
                      /\ workers'[w].pc = "fetch"
                      /\ Ids(workers'[w].batch) = <<Len(requests')>>
          /\ \A w \in 1..NWorkers :
                (/\ workers[w].pc = "timer"
                 /\ workers'[w] # workers[w]
                 /\ pendingQueue # <<>>)
                => /\ workers'[w].pc = "fetch"
                   /\ workers'[w].batch[1] = pendingQueue[1]]_vars

(* a request was appended while the loop, its last batch resolved and the   *)
(* pending list empty, waits for its timer                                  *)
C37_Witness ==
    /\ \E w \in 1..NWorkers : workers[w].pc = "timer" /\ workers[w].ms = BatchDelayMs
    /\ isProcessing
    /\ Len(requests) >= 2
    /\ Ids(pendingQueue) = <<Len(requests)>>
    /\ \A r \in 1..(Len(requests) - 1) : Settled(r)
    /\ response = NoResponse

(* C40: in RealtimeTranslationModule, whatever the calls of setEnabled(),   *)
(* the completions of translateNewText(), handleTranslationError() and      *)
(* reset(), hasError implies that isEnabled is false; and a final result    *)
(* that arrives while the module is disabled or in error adds no            *)
(* translation placeholder and submits no request.                          *)
C40_ErrorMeansDisabled ==
    /\ [](hasError => ~isEnabled)
    /\ [][(handler'.name = "message" /\ (~isEnabled \/ hasError))
            => /\ requests' = requests
               /\ pendingQueue' = pendingQueue
               /\ sent' = NoBody
               /\ awaiting' = awaiting
               /\ \A k \in DOMAIN lines' :
                     k \notin DOMAIN lines => lines'[k].translation # "translating"]_vars

(* a new final result has just been shown, the toggle checked, after the    *)
(* translation of the line before failed: no placeholder, no request        *)
C40_Witness ==
    /\ MessageTurn
    /\ toggle
    /\ hasError
    /\ ~isEnabled
    /\ Len(lines) = 2
    /\ lines[2].translation = "none"
    /\ Len(requests) = 1
    /\ outcome[1] = "rejected"
    /\ sent = NoBody

====
